---- MODULE Spec2Model ----
(***************************************************************************)
(* LearnFlow backend (src/backend/main.py): the POST /api/v1/generate      *)
(* handler generate_content and its provider client call_with_retries.     *)
(*                                                                         *)
(* Python values are tagged records [t |-> <type name>, v |-> <content>].  *)
(* A JSON text is a sequence of tokens; json_loads parses it the way       *)
(* json.loads does.  Each request is an asyncio task: an action runs the   *)
(* code from one suspension point (await) to the next.                     *)
(***************************************************************************)
EXTENDS Integers, Sequences, FiniteSets, TLC

\* ------------------------------------------------------------ bounds
\* Number of inbound requests that the concurrent specification interleaves.
NumReqs == 2

\* ------------------------------------------------------ Python values
PyStr(s)   == [t |-> "str", v |-> s]
PyNum(s)   == [t |-> "int", v |-> s]
PyNone     == [t |-> "NoneType", v |-> "None"]
PyList(xs) == [t |-> "list", v |-> xs]
PyDict(f)  == [t |-> "dict", v |-> f]

\* The result of an evaluation that may raise: a value, or an exception class.
Ok(x)     == [ok |-> TRUE, val |-> x, exc |-> "None"]
Raise(e)  == [ok |-> FALSE, val |-> PyNone, exc |-> e]

\* ---------------------------------------------------------- JSON text
\* Tokens of a JSON text: punctuation, string and number literals, null.
Tok(k, s) == [k |-> k, s |-> s]
LBrace    == Tok("{", "{")
RBrace    == Tok("}", "}")
LBrack    == Tok("[", "[")
RBrack    == Tok("]", "]")
Comma     == Tok(",", ",")
Colon     == Tok(":", ":")
TStr(s)   == <<Tok("str", s)>>
TNum(s)   == <<Tok("num", s)>>
TNull     == <<Tok("null", "null")>>

\* parts[1] , parts[2] , ... : the texts of parts joined by commas.
RECURSIVE Join(_)
Join(parts) ==
    IF parts = <<>> THEN <<>>
    ELSE IF Len(parts) = 1 THEN parts[1]
    ELSE parts[1] \o <<Comma>> \o Join(Tail(parts))

TArr(items)     == <<LBrack>> \o Join(items) \o <<RBrack>>
TObj(members)   == <<LBrace>> \o Join(members) \o <<RBrace>>
TMember(k, val) == TStr(k) \o <<Colon>> \o val

\* json.loads: the value a text denotes, or JSONDecodeError.  ParseValue
\* reads one value starting at position p and returns it with the position
\* after it; a text with tokens left over after its value is "Extra data".
ParseFail == [ok |-> FALSE, val |-> PyNone, next |-> 0]
Parsed(x, n) == [ok |-> TRUE, val |-> x, next |-> n]

\* The dict a list of (key, value) pairs builds: a later pair replaces an
\* earlier one with the same key.
DictOf(pairs) ==
    LET keys == {pairs[j][1] : j \in DOMAIN pairs}
        last(k) == CHOOSE j \in DOMAIN pairs :
                      /\ pairs[j][1] = k
                      /\ \A m \in DOMAIN pairs : pairs[m][1] = k => m <= j
    IN  PyDict([k \in keys |-> pairs[last(k)][2]])

RECURSIVE ParseValue(_, _), ParseItems(_, _, _), ParseMembers(_, _, _)
ParseValue(toks, p) ==
    IF p > Len(toks) THEN ParseFail
    ELSE LET tk == toks[p] IN
         CASE tk.k = "str"  -> Parsed(PyStr(tk.s), p + 1)
           [] tk.k = "num"  -> Parsed(PyNum(tk.s), p + 1)
           [] tk.k = "null" -> Parsed(PyNone, p + 1)
           [] tk.k = "["    ->
                IF p + 1 <= Len(toks) /\ toks[p + 1].k = "]"
                THEN Parsed(PyList(<<>>), p + 2)
                ELSE ParseItems(toks, p + 1, <<>>)
           [] tk.k = "{"    ->
                IF p + 1 <= Len(toks) /\ toks[p + 1].k = "}"
                THEN Parsed(PyDict(<<>>), p + 2)
                ELSE ParseMembers(toks, p + 1, <<>>)
           [] OTHER -> ParseFail

\* The items of an array after "[" or ",", up to and including "]".
ParseItems(toks, p, acc) ==
    LET item == ParseValue(toks, p) IN
    IF ~item.ok \/ item.next > Len(toks) THEN ParseFail
    ELSE LET sep == toks[item.next].k
             all == Append(acc, item.val) IN
         CASE sep = "," -> ParseItems(toks, item.next + 1, all)
           [] sep = "]" -> Parsed(PyList(all), item.next + 1)
           [] OTHER     -> ParseFail

\* The members of an object after "{" or ",", up to and including "}".
ParseMembers(toks, p, acc) ==
    IF p + 1 > Len(toks) \/ toks[p].k # "str" \/ toks[p + 1].k # ":"
    THEN ParseFail
    ELSE LET val == ParseValue(toks, p + 2) IN
         IF ~val.ok \/ val.next > Len(toks) THEN ParseFail
         ELSE LET sep == toks[val.next].k
                  all == Append(acc, <<toks[p].s, val.val>>) IN
              CASE sep = "," -> ParseMembers(toks, val.next + 1, all)
                [] sep = "}" -> Parsed(DictOf(all), val.next + 1)
                [] OTHER     -> ParseFail

\* A text that does not parse taken as the empty object.
json_loads_OrEmpty(s) ==
    IF s.t # "str" THEN Raise("TypeError")
    ELSE LET r == ParseValue(s.v, 1) IN
         IF r.ok /\ r.next = Len(s.v) + 1 THEN Ok(r.val) ELSE Ok(PyDict(<<>>))

\* json.loads(s): TypeError unless s is a str; JSONDecodeError unless the
\* whole text is one JSON value.
json_loads(s) ==
    IF s.t # "str" THEN Raise("TypeError")
    ELSE LET r == ParseValue(s.v, 1) IN
         IF r.ok /\ r.next = Len(s.v) + 1 THEN Ok(r.val)
         ELSE Raise("JSONDecodeError")

\* ------------------------------------------------------- subscripting
\* x[k] for a str key k, as Python evaluates it.
GetKey(x, k) ==
    CASE x.t = "dict" -> IF k \in DOMAIN x.v THEN Ok(x.v[k]) ELSE Raise("KeyError")
      [] OTHER        -> Raise("TypeError")

\* x[0], as Python evaluates it.  A dict decoded from JSON has only str keys.
GetFirst(x) ==
    CASE x.t = "list" -> IF Len(x.v) = 0 THEN Raise("IndexError") ELSE Ok(x.v[1])
      [] x.t = "dict" -> Raise("KeyError")
      [] x.t = "str"  -> IF Len(x.v) = 0 THEN Raise("IndexError") ELSE Ok(PyStr("c"))
      [] OTHER        -> Raise("TypeError")

\* A subscript applied to the result r of the evaluation so far: the first
\* subscript that raises ends the evaluation.
SubKey(r, k) == IF r.ok THEN GetKey(r.val, k) ELSE r
SubFirst(r)  == IF r.ok THEN GetFirst(r.val) ELSE r

\* gemini_response["candidates"][0]["content"]["parts"][0]["text"], left to
\* right.
Subscripts(g) ==
    SubKey(SubFirst(SubKey(SubKey(SubFirst(SubKey(Ok(g), "candidates")),
                                  "content"), "parts")), "text")

\* An empty text in place of a missing one.
OrEmptyText(r) == IF r.ok THEN r ELSE Ok(PyStr(<<>>))
EnvelopeText_Default(gemini_response) == OrEmptyText(Subscripts(gemini_response))

\* json_string = gemini_response["candidates"][0]["content"]["parts"][0]["text"]
EnvelopeText(gemini_response) == Subscripts(gemini_response)

\* -------------------------------------------------- pydantic validation
Invalid == Raise("ValidationError")

\* A field declared str: pydantic accepts a str and nothing else that
\* json.loads can produce (no coercion of numbers, None, lists or dicts).
ValidStr(x) == IF x.t = "str" THEN Ok(x) ELSE Invalid

\* A field declared List[str]: a list whose every item is a str.
ValidStrList(x) ==
    IF x.t = "list" /\ \A j \in DOMAIN x.v : ValidStr(x.v[j]).ok THEN Ok(x) ELSE Invalid

\* A required field k of an item x, declared str or List[str]: a missing key
\* is an error.
ItemField(x, k, T) ==
    IF k \notin DOMAIN x.v THEN Invalid
    ELSE IF T = "str" THEN ValidStr(x.v[k]) ELSE ValidStrList(x.v[k])

\* class QuizQuestion(BaseModel): question, options, correctAnswer.
QuizQuestion(x) ==
    IF x.t # "dict" THEN Invalid
    ELSE LET question      == ItemField(x, "question", "str")
             options       == ItemField(x, "options", "List[str]")
             correctAnswer == ItemField(x, "correctAnswer", "str")
         IN  IF question.ok /\ options.ok /\ correctAnswer.ok
             THEN Ok([t |-> "QuizQuestion",
                      v |-> [question |-> question.val, options |-> options.val,
                             correctAnswer |-> correctAnswer.val]])
             ELSE Invalid

\* class VideoRecommendation(BaseModel): title, url.
VideoRecommendation(x) ==
    IF x.t # "dict" THEN Invalid
    ELSE LET title == ItemField(x, "title", "str")
             url   == ItemField(x, "url", "str")
         IN  IF title.ok /\ url.ok
             THEN Ok([t |-> "VideoRecommendation",
                      v |-> [title |-> title.val, url |-> url.val]])
             ELSE Invalid

\* An item of a list declared List[VideoRecommendation] or List[QuizQuestion].
ValidItem(T, x) ==
    IF T = "VideoRecommendation" THEN VideoRecommendation(x) ELSE QuizQuestion(x)

\* The items that do not validate left out of the list.
ValidList_DropInvalid(T, x) ==
    IF x.t # "list" THEN Invalid
    ELSE LET Good(item) == ValidItem(T, item).ok
             kept == SelectSeq(x.v, Good)
         IN  Ok(PyList([j \in DOMAIN kept |-> ValidItem(T, kept[j]).val]))

\* A field declared List[T], T a model: a list whose every item validates.
ValidList(T, x) ==
    IF x.t # "list" THEN Invalid
    ELSE IF \A j \in DOMAIN x.v : ValidItem(T, x.v[j]).ok
         THEN Ok(PyList([j \in DOMAIN x.v |-> ValidItem(T, x.v[j]).val]))
         ELSE Invalid

\* x validated against the annotation T of a field of FullContentResponse.
Validate(T, x) ==
    CASE T = "str"                       -> ValidStr(x)
      [] T = "List[str]"                 -> ValidStrList(x)
      [] T = "List[VideoRecommendation]" -> ValidList("VideoRecommendation", x)
      [] T = "List[QuizQuestion]"        -> ValidList("QuizQuestion", x)

\* A missing field taken as None, as a field declared Optional would be.
Field_Optional(x, k, T) == IF k \in DOMAIN x.v THEN Validate(T, x.v[k]) ELSE Ok(PyNone)

\* A required field k of the dict x, declared with annotation T: a missing
\* key is an error.
Field(x, k, T) == IF k \in DOMAIN x.v THEN Validate(T, x.v[k]) ELSE Invalid

\* examples declared a list of texts.
ExamplesType_List == "List[str]"

\* examples: str
ExamplesType == "str"

\* class FullContentResponse(BaseModel): explanation, examples, videos, quiz.
\* The instance holds the declared fields only: keys the model does not
\* declare are ignored.
FullContentResponse(x) ==
    IF x.t # "dict" THEN Invalid
    ELSE LET explanation == Field(x, "explanation", "str")
             examples    == Field(x, "examples", ExamplesType)
             videos      == Field(x, "videos", "List[VideoRecommendation]")
             quiz        == Field(x, "quiz", "List[QuizQuestion]")
         IN  IF explanation.ok /\ examples.ok /\ videos.ok /\ quiz.ok
             THEN Ok([t |-> "FullContentResponse",
                      v |-> [explanation |-> explanation.val,
                             examples |-> examples.val,
                             videos |-> videos.val, quiz |-> quiz.val]])
             ELSE Invalid

\* FullContentResponse.model_validate(parsed_response)
model_validate(obj) == FullContentResponse(obj)

\* The JSON content FastAPI sends for a returned value: a model instance is
\* sent as the object of its fields.
RECURSIVE jsonable(_)
jsonable(x) ==
    CASE x.t = "list" -> PyList([j \in DOMAIN x.v |-> jsonable(x.v[j])])
      [] x.t \in {"dict", "FullContentResponse", "VideoRecommendation", "QuizQuestion"}
                      -> PyDict([k \in DOMAIN x.v |-> jsonable(x.v[k])])
      [] OTHER        -> x

\* ------------------------------------------------ the provider's replies
\* An HTTP response: its status and its body.  A body is recorded as the
\* value response.json() decodes it to, or as bytes that are not JSON.  A
\* request that got no response at all (status 0) carries the httpx error.
Response(status, body) == [status |-> status, body |-> body, error |-> "None"]
NoResponse(error)      == [status |-> 0, body |-> PyNone, error |-> error]
Bytes(s)               == [t |-> "bytes", v |-> s]

\* The members a payload may give for each field of the learning package:
\* none, a well-typed one, and ill-typed ones.
Explanation(val) == <<TMember("explanation", val)>>
Examples(val)    == <<TMember("examples", val)>>
Videos(val)      == <<TMember("videos", val)>>
Quiz(val)        == <<TMember("quiz", val)>>

Title    == TMember("title", TStr("Intro"))
Url      == TMember("url", TStr("https://youtube.com/embed/abc"))
Question == TMember("question", TStr("What is F?"))
Options  == TMember("options", TArr(<<TStr("Force"), TStr("Mass"), TStr("Time")>>))
Answer   == TMember("correctAnswer", TStr("Force"))

ExplanationMembers ==
    { <<>>, Explanation(TStr("F=ma...")), Explanation(TNum("7")) }
ExamplesMembers ==
    { <<>>, Examples(TStr("...")), Examples(TArr(<<TStr("...")>>)), Examples(TNull) }
VideosMembers ==
    { <<>>,
      Videos(TArr(<<>>)),
      Videos(TArr(<<TObj(<<Title, Url>>)>>)),
      Videos(TArr(<<TObj(<<Title, Url>>), TObj(<<Url>>)>>)),
      Videos(TArr(<<TObj(<<Title>>)>>)),
      Videos(TArr(<<TObj(<<Title, Url, TMember("channel", TStr("MIT"))>>)>>)),
      Videos(TStr("https://youtube.com/embed/abc")) }
QuizMembers ==
    { <<>>,
      Quiz(TArr(<<>>)),
      Quiz(TArr(<<TObj(<<Question, Options, Answer>>)>>)),
      Quiz(TArr(<<TObj(<<Options, Answer>>)>>)),
      Quiz(TArr(<<TObj(<<Question, Answer>>)>>)),
      Quiz(TArr(<<TObj(<<Question, Options, Answer>>), TObj(<<Question, Options>>)>>)),
      Quiz(TArr(<<TObj(<<Question, TMember("options", TArr(<<TStr("Force"), TNum("2")>>)),
                         Answer>>)>>)) }
OtherMembers ==
    { <<>>, <<TMember("topic", TStr("mechanics"))>>,
      <<TMember("examples", TStr("a later examples member"))>> }

\* JSON objects over every combination of the members above.
ObjectTexts ==
    { TObj(e \o x \o v \o q \o o) :
        e \in ExplanationMembers, x \in ExamplesMembers, v \in VideosMembers,
        q \in QuizMembers, o \in OtherMembers }

\* The scenario's payload, with examples given as a list.
ScenarioText ==
    TObj(Explanation(TStr("F=ma...")) \o Examples(TArr(<<TStr("...")>>))
         \o Videos(TArr(<<TObj(<<Title, Url>>)>>))
         \o Quiz(TArr(<<TObj(<<Question, Options, Answer>>)>>)))

\* The same payload with examples given as one text block.
StringExamplesText ==
    TObj(Explanation(TStr("F=ma...")) \o Examples(TStr("..."))
         \o Videos(TArr(<<TObj(<<Title, Url>>)>>))
         \o Quiz(TArr(<<TObj(<<Question, Options, Answer>>)>>)))

\* Texts that are JSON but no object, and texts that are not JSON: empty,
\* cut short, followed by more, or prose.
OtherTexts ==
    { TArr(<<StringExamplesText>>), TNull, TStr("F=ma..."),
      <<>>,
      SubSeq(StringExamplesText, 1, Len(StringExamplesText) - 1),
      StringExamplesText \o <<RBrace>>,
      StringExamplesText \o StringExamplesText,
      <<Tok("word", "Sure"), Comma, Tok("word", "here")>> \o StringExamplesText,
      <<LBrace, Tok("str", "explanation"), Tok("str", "F=ma..."), RBrace>>,
      <<LBrack, Tok("str", "a"), Comma, RBrack>> }

\* The envelope Gemini wraps a text in.
Part(text)      == PyDict([text |-> text])
Candidate(ps)   == PyDict([content |-> PyDict([parts |-> ps, role |-> PyStr("model")]),
                           finishReason |-> PyStr("STOP")])
Envelope(text)  == PyDict([candidates |-> PyList(<<Candidate(PyList(<<Part(text)>>))>>),
                           modelVersion |-> PyStr("gemini-2.5-flash")])

\* 2xx bodies without the path candidates[0].content.parts[0].text.
BrokenEnvelopes ==
    { PyDict([modelVersion |-> PyStr("gemini-2.5-flash")]),
      PyDict([choices |-> PyList(<<Candidate(PyList(<<Part(PyStr(StringExamplesText))>>))>>)]),
      PyDict([candidates |-> PyList(<<>>)]),
      PyDict([candidates |-> PyNone]),
      PyDict([candidates |-> PyStr("blocked")]),
      PyDict([candidates |-> PyList(<<PyDict([finishReason |-> PyStr("SAFETY")])>>)]),
      PyDict([candidates |-> PyList(<<PyDict([content |-> PyDict([role |-> PyStr("model")])])>>)]),
      PyDict([candidates |-> PyList(<<Candidate(PyList(<<>>))>>)]),
      PyDict([candidates |-> PyList(<<Candidate(PyList(<<PyDict([inlineData |-> PyStr("...")])>>))>>)]),
      PyList(<<>>),
      PyNone }

\* 2xx bodies with the path present: the text is any of the texts above, or
\* is no str at all.
FullEnvelopes ==
    { Envelope(PyStr(text)) : text \in ObjectTexts \cup OtherTexts }
    \cup { Envelope(PyNone), Envelope(PyNum("7")) }

ErrorBodies ==
    { Bytes("<html>Service Unavailable</html>"),
      PyDict([error |-> PyDict([message |-> PyStr("quota exceeded for key")])]) }

ErrorStatuses   == {302, 403, 404, 500, 503}
NetworkErrors   == {"ConnectError", "ReadTimeout"}

\* Every reply the model draws for one POST.
Replies ==
    { Response(200, b) : b \in FullEnvelopes \cup BrokenEnvelopes }
    \cup { Response(201, Envelope(PyStr(StringExamplesText))),
           Response(200, Bytes("<html>OK</html>")), Response(204, Bytes("")) }
    \cup { Response(st, b) : st \in ErrorStatuses \cup {429}, b \in ErrorBodies }
    \cup { NoResponse(e) : e \in NetworkErrors }

\* A few replies of each class, for the runs that interleave requests.
FewReplies ==
    { Response(200, Envelope(PyStr(StringExamplesText))),
      Response(200, Envelope(PyStr(ScenarioText))),
      Response(200, PyDict([candidates |-> PyList(<<>>)])),
      Response(429, Bytes("<html>Service Unavailable</html>")),
      Response(503, Bytes("<html>Service Unavailable</html>")),
      NoResponse("ReadTimeout") }

\* ---------------------------------------------------------------- state
Reqs == 1..NumReqs

VARIABLES
    GEMINI_API_KEY,   \* the module-level credential, read once at import
    pc,               \* per request: "idle", "post", "sleep" or "done"
    query,            \* per request: request.query
    payload,          \* per request: the payload built for the provider
    i,                \* per request: the loop variable of call_with_retries
    posts,            \* per request: outbound POSTs made so far
    sleeps,           \* per request: the delays slept so far, in order
    statuses,         \* per request: the status of every reply so far, in order
    response,         \* per request: the last reply received
    steps,            \* per request: the steps run on a returned body, in order
    gemini_response,  \* per request: what call_with_retries returned
    json_string,      \* per request: the text taken out of the envelope
    parsed_response,  \* per request: what json.loads returned
    exc,              \* per request: the exception the handler caught
    reply             \* per request: what the caller is sent

vars == <<GEMINI_API_KEY, pc, query, payload, i, posts, sleeps, statuses, response, steps,
          gemini_response, json_string, parsed_response, exc, reply>>

Unset   == [t |-> "unset", v |-> "unset"]
NoReply == [status |-> 0, detail |-> "", content |-> Unset]

\* -------------------------------------------------------- the program
\* Twice as many passes of the loop.
max_retries_Ten == 5 + 5

\* max_retries=5, the default of call_with_retries, which the handler uses.
max_retries == 5

\* A linear backoff in place of the exponential one.
BackoffDelay_Linear(n) == 2 * n

\* The delay capped at 4 seconds.
BackoffDelay_Capped(n) == IF 2 ^ n > 4 THEN 4 ELSE 2 ^ n

\* delay = 2 ** i
BackoffDelay(n) == 2 ^ n

\* Server errors retried like rate limiting.
IsRateLimited_Or5xx(status) == status = 429 \/ status >= 500

\* e.response.status_code == 429
IsRateLimited(status) == status = 429

\* The last HTTP error raised again in place of the plain Exception.
RetriesExhausted_Reraise == "HTTPStatusError"

\* raise Exception("Failed to get response from Gemini API after multiple retries.")
RetriesExhausted == "Exception"

\* response.raise_for_status() returns for a 2xx status and raises
\* HTTPStatusError for any other.
IsSuccess(status) == status \in 200..299

\* response.json()
ResponseJson(resp) ==
    IF resp.body.t = "bytes" THEN Raise("JSONDecodeError") ELSE Ok(resp.body)

\* Only an empty credential taken as missing.
KeyNotConfigured_Empty(key) == key = ""

\* GEMINI_API_KEY == "your_api_key"
KeyNotConfigured(key) == key = "your_api_key"

\* raise HTTPException(status_code=500, detail="Gemini API key not configured.")
NotConfiguredReply ==
    [status |-> 500, detail |-> "Gemini API key not configured.", content |-> Unset]

\* A status per kind of failure: 422 for an unusable output, 502 for a
\* provider error or a missing candidate, 500 for the rest.
FailureReply_ByKind(e) ==
    [status |-> CASE e \in {"JSONDecodeError", "ValidationError"} -> 422
                  [] e \in {"HTTPStatusError", "KeyError", "IndexError"} -> 502
                  [] OTHER -> 500,
     detail |-> "Failed to generate content from AI.", content |-> Unset]

\* The text of the exception sent as the detail: detail=str(e).
FailureReply_Leaky(e) == [status |-> 500, detail |-> e, content |-> Unset]

\* except Exception as e: raise HTTPException(status_code=500, detail=...)
FailureReply(e) ==
    [status |-> 500, detail |-> "Failed to generate content from AI.", content |-> Unset]

\* A returned FullContentResponse is sent with status 200.
SuccessReply(package) == [status |-> 200, detail |-> "", content |-> jsonable(package)]

\* A body that response.json() cannot decode retried like a rate limit.
Attempt_RetryBadBody(resp) ==
    IF resp.error # "None" THEN [do |-> "raise", exc |-> resp.error, val |-> Unset]
    ELSE IF ~IsSuccess(resp.status)
         THEN IF IsRateLimited(resp.status)
              THEN [do |-> "sleep", exc |-> "None", val |-> Unset]
              ELSE [do |-> "raise", exc |-> "HTTPStatusError", val |-> Unset]
         ELSE LET body == ResponseJson(resp) IN
              IF body.ok THEN [do |-> "return", exc |-> "None", val |-> body.val]
              ELSE [do |-> "sleep", exc |-> "None", val |-> Unset]

\* A POST that got no response retried like a rate limit.
Attempt_RetryNetworkError(resp) ==
    IF resp.error # "None" THEN [do |-> "sleep", exc |-> "None", val |-> Unset]
    ELSE IF ~IsSuccess(resp.status)
         THEN IF IsRateLimited(resp.status)
              THEN [do |-> "sleep", exc |-> "None", val |-> Unset]
              ELSE [do |-> "raise", exc |-> "HTTPStatusError", val |-> Unset]
         ELSE LET body == ResponseJson(resp) IN
              IF body.ok THEN [do |-> "return", exc |-> "None", val |-> body.val]
              ELSE [do |-> "raise", exc |-> body.exc, val |-> Unset]

\* One pass of the try block of call_with_retries on a reply: the body is
\* returned, the loop goes on after a sleep, or an exception leaves the loop.
Attempt(resp) ==
    IF resp.error # "None" THEN [do |-> "raise", exc |-> resp.error, val |-> Unset]
    ELSE IF ~IsSuccess(resp.status)
         THEN IF IsRateLimited(resp.status)
              THEN [do |-> "sleep", exc |-> "None", val |-> Unset]
              ELSE [do |-> "raise", exc |-> "HTTPStatusError", val |-> Unset]
         ELSE LET body == ResponseJson(resp) IN
              IF body.ok THEN [do |-> "return", exc |-> "None", val |-> body.val]
              ELSE [do |-> "raise", exc |-> body.exc, val |-> Unset]

\* Where the try block of generate_content ends once the text, the parsed
\* value and the validated package are known, if they are: the steps that
\* ran, the locals they assigned, and the reply.
TryResult(text, parsed, valid) ==
    [steps  |-> <<"subscript">>
                \o (IF text.ok THEN <<"json.loads">> ELSE <<>>)
                \o (IF parsed.ok THEN <<"model_validate">> ELSE <<>>),
     json_string     |-> IF text.ok THEN text.val ELSE Unset,
     parsed_response |-> IF parsed.ok THEN parsed.val ELSE Unset,
     exc    |-> valid.exc,
     reply  |-> IF valid.ok THEN SuccessReply(valid.val) ELSE FailureReply(valid.exc)]

\* return FullContentResponse.model_validate(parsed_response), unless a step
\* before raised.
ValidateStep(text, parsed) ==
    TryResult(text, parsed, IF parsed.ok THEN model_validate(parsed.val) ELSE parsed)

\* parsed_response = json.loads(json_string), unless the subscripts raised.
ParseStep(text) ==
    ValidateStep(text, IF text.ok THEN json_loads(text.val) ELSE text)

\* The try block of generate_content once call_with_retries has returned g:
\* take the text out of the envelope, parse it, validate it.  Each step runs
\* only if the one before raised nothing.
AfterCall(g) == ParseStep(EnvelopeText(g))

\* prompt = f"""... Here is the user's query: "{request.query}" ..."""
Prompt(q) == <<"You are an educational assistant named LearnFlow. ...",
               "Here is the user's query: ", q,
               "Your response must be a single JSON object ...">>

\* payload = {"contents": [{"parts": [{"text": prompt}]}], "generationConfig": ...}
Payload(q) ==
    PyDict([contents |-> PyList(<<PyDict([parts |-> PyList(<<Part(PyStr(Prompt(q)))>>)])>>),
            generationConfig |->
                PyDict([responseMimeType |-> PyStr("application/json"),
                        responseSchema |-> PyStr("GEMINI_RESPONSE_SCHEMA")])])

\* The request ends in the handler's except clause with exception e.
Fail(r, e) ==
    /\ pc' = [pc EXCEPT ![r] = "done"]
    /\ exc' = [exc EXCEPT ![r] = e]
    /\ reply' = [reply EXCEPT ![r] = FailureReply(e)]

Init ==
    /\ GEMINI_API_KEY \in {"your_api_key", "AIza-a-real-key"}
    /\ pc = [r \in Reqs |-> "idle"]
    /\ query = [r \in Reqs |-> ""]
    /\ payload = [r \in Reqs |-> Unset]
    /\ i = [r \in Reqs |-> 0]
    /\ posts = [r \in Reqs |-> 0]
    /\ sleeps = [r \in Reqs |-> <<>>]
    /\ statuses = [r \in Reqs |-> <<>>]
    /\ response = [r \in Reqs |-> NoResponse("None")]
    /\ steps = [r \in Reqs |-> <<>>]
    /\ gemini_response = [r \in Reqs |-> Unset]
    /\ json_string = [r \in Reqs |-> Unset]
    /\ parsed_response = [r \in Reqs |-> Unset]
    /\ exc = [r \in Reqs |-> "None"]
    /\ reply = [r \in Reqs |-> NoReply]

\* generate_content from its entry to its first suspension: the credential
\* check, then the first client.post of call_with_retries.
Receive(r, Q) ==
    /\ pc[r] = "idle"
    /\ \E q \in Q : query' = [query EXCEPT ![r] = q]
    /\ IF KeyNotConfigured(GEMINI_API_KEY)
       THEN /\ pc' = [pc EXCEPT ![r] = "done"]
            /\ reply' = [reply EXCEPT ![r] = NotConfiguredReply]
            /\ UNCHANGED <<payload, posts>>
       ELSE /\ pc' = [pc EXCEPT ![r] = "post"]
            /\ payload' = [payload EXCEPT ![r] = Payload(query'[r])]
            /\ posts' = [posts EXCEPT ![r] = @ + 1]
            /\ UNCHANGED reply
    /\ UNCHANGED <<GEMINI_API_KEY, i, sleeps, statuses, response, steps,
                   gemini_response, json_string, parsed_response, exc>>

\* await client.post(...) returns or raises: the rest of the try block of
\* call_with_retries and, when it returns a body, the rest of generate_content.
PostReturns(r, R) ==
    /\ pc[r] = "post"
    /\ \E resp \in R :
         LET a == Attempt(resp) IN
         /\ response' = [response EXCEPT ![r] = resp]
         /\ statuses' = [statuses EXCEPT ![r] = Append(@, resp.status)]
         /\ CASE a.do = "sleep" ->
                   /\ pc' = [pc EXCEPT ![r] = "sleep"]
                   /\ sleeps' = [sleeps EXCEPT ![r] = Append(@, BackoffDelay(i[r]))]
                   /\ UNCHANGED <<steps, gemini_response, json_string,
                                  parsed_response, exc, reply>>
              [] a.do = "raise" ->
                   /\ Fail(r, a.exc)
                   /\ UNCHANGED <<sleeps, steps, gemini_response, json_string,
                                  parsed_response>>
              [] a.do = "return" ->
                   LET h == AfterCall(a.val) IN
                   /\ pc' = [pc EXCEPT ![r] = "done"]
                   /\ gemini_response' = [gemini_response EXCEPT ![r] = a.val]
                   /\ steps' = [steps EXCEPT ![r] = h.steps]
                   /\ json_string' = [json_string EXCEPT ![r] = h.json_string]
                   /\ parsed_response' = [parsed_response EXCEPT ![r] = h.parsed_response]
                   /\ exc' = [exc EXCEPT ![r] = h.exc]
                   /\ reply' = [reply EXCEPT ![r] = h.reply]
                   /\ UNCHANGED sleeps
    /\ UNCHANGED <<GEMINI_API_KEY, query, payload, i, posts>>

\* The loop counter kept in one module-level variable that every request
\* advances, in place of the local i of each call.
SleepReturns_SharedCounter(r) ==
    /\ pc[r] = "sleep"
    /\ i' = [i EXCEPT ![1] = @ + 1]
    /\ IF i[1] + 1 < max_retries
       THEN /\ pc' = [pc EXCEPT ![r] = "post"]
            /\ posts' = [posts EXCEPT ![r] = @ + 1]
            /\ UNCHANGED <<exc, reply>>
       ELSE /\ Fail(r, RetriesExhausted)
            /\ UNCHANGED posts
    /\ UNCHANGED <<GEMINI_API_KEY, query, payload, sleeps, statuses, response, steps,
                   gemini_response, json_string, parsed_response>>

\* await asyncio.sleep(delay) returns: the next pass of the loop posts
\* again, or the loop is over and the function raises Exception.
SleepReturns(r) ==
    /\ pc[r] = "sleep"
    /\ i' = [i EXCEPT ![r] = @ + 1]
    /\ IF i[r] + 1 < max_retries
       THEN /\ pc' = [pc EXCEPT ![r] = "post"]
            /\ posts' = [posts EXCEPT ![r] = @ + 1]
            /\ UNCHANGED <<exc, reply>>
       ELSE /\ Fail(r, RetriesExhausted)
            /\ UNCHANGED posts
    /\ UNCHANGED <<GEMINI_API_KEY, query, payload, sleeps, statuses, response, steps,
                   gemini_response, json_string, parsed_response>>

\* One request, every reply.
Next ==
    \/ Receive(1, {"Newton's second law"})
    \/ PostReturns(1, Replies)
    \/ SleepReturns(1)

Spec == Init /\ [][Next]_vars

\* The queries of the requests that are interleaved, one per request.
Queries == <<"entropy", "Newton's second law", "photosynthesis">>
QueryOf(r) == Queries[((r - 1) % Len(Queries)) + 1]

\* time.sleep in place of asyncio.sleep: a request that sleeps holds the
\* thread of the event loop, and no other task is resumed meanwhile.
Runnable_BlockingSleep(r) == \A s \in Reqs \ {r} : pc[s] # "sleep"

\* await client.post(...) and await asyncio.sleep(delay) suspend the calling
\* task alone: the event loop resumes a task as soon as what it awaits is
\* over, whatever the other tasks are waiting for.
Runnable(r) == TRUE

\* One step of request r: its task runs from one suspension point to the next.
Step(r) ==
    \/ Runnable(r) /\ Receive(r, {QueryOf(r)})
    \/ Runnable(r) /\ PostReturns(r, FewReplies)
    \/ Runnable(r) /\ SleepReturns(r)

\* One request, every reply, and each POST and each sleep returns in the
\* end: the client's timeout ends a POST, the loop's timer ends a sleep.
SpecFair ==
    Init /\ [][Next]_vars
    /\ WF_vars(PostReturns(1, Replies)) /\ WF_vars(SleepReturns(1))

\* Several requests interleaved at their suspension points.
NextConc == \E r \in Reqs : Step(r)

SpecConc == Init /\ [][NextConc]_vars

\* The same, with request 1 free to stay suspended for ever: nothing is
\* assumed of its POST or of its sleep.  Every other request arrives, and
\* each of its POSTs and sleeps is over in the end (the client's timeout
\* ends a POST, the loop's timer a sleep), after which its task is resumed.
SpecStalled == Init /\ [][NextConc]_vars /\ \A s \in Reqs \ {1} : WF_vars(Step(s))

\* ---------------------------------------------------------------- claims
Done(r)     == pc[r] = "done"
Replied(r)  == statuses[r] # <<>>
LastStatus(r) == statuses[r][Len(statuses[r])]
AllRateLimited(r) == \A j \in DOMAIN statuses[r] : statuses[r][j] = 429
IsUnset(x)  == x.t = "unset"
NoPackage(x) == IsUnset(x.content)
IsGenericFailure(x) ==
    x.status = 500 /\ x.detail = "Failed to generate content from AI." /\ NoPackage(x)
IsNotConfigured(x) ==
    x.status = 500 /\ x.detail = "Gemini API key not configured." /\ NoPackage(x)

\* C1: while every reply of a request is a 429, the sleep after attempt j
\* (j = 0, 1, ...) is 2^j seconds and one POST is made per attempt; the
\* request fails only after max_retries POSTs and the sleeps 1, 2, 4, 8, 16,
\* with the plain Exception of exhausted retries, and has no reply before.
C1_BackoffUntilExhausted ==
    \A r \in Reqs :
        (posts[r] > 0 /\ AllRateLimited(r)) =>
            /\ Len(statuses[r]) <= 5
            /\ sleeps[r] = [j \in 1..Len(statuses[r]) |-> 2 ^ (j - 1)]
            /\ \A j \in 2..Len(sleeps[r]) : sleeps[r][j - 1] < sleeps[r][j]
            /\ posts[r] = Len(statuses[r]) + (IF pc[r] = "post" THEN 1 ELSE 0)
            /\ Done(r) => /\ posts[r] = 5
                          /\ sleeps[r] = <<1, 2, 4, 8, 16>>
                          /\ exc[r] = "Exception"
                          /\ IsGenericFailure(reply[r])
            /\ ~Done(r) => exc[r] = "None" /\ reply[r].status = 0

C1_Witness ==
    /\ Done(1) /\ AllRateLimited(1) /\ posts[1] = 5
    /\ sleeps[1] = <<1, 2, 4, 8, 16>> /\ exc[1] = "Exception"

\* C2: a reply with a status that is neither 2xx nor 429 ends the request at
\* once, at whatever attempt it comes: it is the last reply, no POST and no
\* sleep follows it, and the failure is the HTTPStatusError itself.
C2_OtherStatusNotRetried ==
    \A r \in Reqs : \A j \in DOMAIN statuses[r] :
        (statuses[r][j] \notin 200..299 /\ statuses[r][j] \notin {429, 0}) =>
            /\ j = Len(statuses[r])
            /\ Done(r)
            /\ posts[r] = j
            /\ Len(sleeps[r]) = j - 1
            /\ \A m \in 1..(j - 1) : statuses[r][m] = 429
            /\ exc[r] = "HTTPStatusError"
            /\ reply[r].status # 200 /\ NoPackage(reply[r])

C2_Witness ==
    /\ Done(1) /\ Len(statuses[1]) = 3 /\ LastStatus(1) = 503
    /\ posts[1] = 3 /\ sleeps[1] = <<1, 2>> /\ exc[1] = "HTTPStatusError"

\* C3: with the placeholder credential no request makes a POST or sleeps, and
\* each ends with status 500 and the configuration message.
C3_PlaceholderKeyNoCalls ==
    GEMINI_API_KEY = "your_api_key" =>
        \A r \in Reqs :
            /\ posts[r] = 0 /\ sleeps[r] = <<>> /\ statuses[r] = <<>>
            /\ pc[r] \in {"idle", "done"}
            /\ Done(r) => IsNotConfigured(reply[r])

C3_Witness ==
    GEMINI_API_KEY = "your_api_key" /\ Done(1) /\ posts[1] = 0 /\ reply[1].status = 500

\* What the claims say of a value, stated on the value itself.
IsStr(x)     == x.t = "str"
IsDict(x)    == x.t = "dict"
IsList(x)    == x.t = "list"
Has(x, k)    == IsDict(x) /\ k \in DOMAIN x.v
HasStr(x, k) == Has(x, k) /\ IsStr(x.v[k])
IsStrList(x) == IsList(x) /\ \A j \in DOMAIN x.v : IsStr(x.v[j])
IsVideo(x)   == HasStr(x, "title") /\ HasStr(x, "url")
IsQuizItem(x) ==
    HasStr(x, "question") /\ Has(x, "options") /\ IsStrList(x.v["options"])
    /\ HasStr(x, "correctAnswer")
VideosAndQuizFit(x) ==
    /\ Has(x, "videos") /\ IsList(x.v["videos"])
    /\ \A j \in DOMAIN x.v["videos"].v : IsVideo(x.v["videos"].v[j])
    /\ Has(x, "quiz") /\ IsList(x.v["quiz"])
    /\ \A j \in DOMAIN x.v["quiz"].v : IsQuizItem(x.v["quiz"].v[j])
\* The shape the model classes declare: examples is one text block.
FitsDeclaredShape(x) ==
    HasStr(x, "explanation") /\ HasStr(x, "examples") /\ VideosAndQuizFit(x)
\* The shape the specification describes: examples is a text block or a list
\* of texts.
FitsSpecShape(x) ==
    /\ HasStr(x, "explanation")
    /\ Has(x, "examples") /\ (IsStr(x.v["examples"]) \/ IsStrList(x.v["examples"]))
    /\ VideosAndQuizFit(x)
\* The path candidates[0].content.parts[0].text is present in g.
HasEnvelopePath(g) ==
    /\ Has(g, "candidates") /\ IsList(g.v["candidates"]) /\ Len(g.v["candidates"].v) > 0
    /\ LET c == g.v["candidates"].v[1] IN
       /\ Has(c, "content") /\ Has(c.v["content"], "parts")
       /\ LET ps == c.v["content"].v["parts"] IN
          /\ IsList(ps) /\ Len(ps.v) > 0 /\ Has(ps.v[1], "text")
PackageKeys == {"explanation", "examples", "videos", "quiz"}

\* C4: a request ends with status 200 only if its last reply had a 2xx
\* status, the envelope path was present, the text was parsed and the parsed
\* value fits the declared shape; the content sent is then a whole package.
\* Every other request ends with an error status and no package at all.
C4_SuccessOnlyWhenAllStagesPass ==
    \A r \in Reqs : Done(r) =>
        /\ reply[r].status = 200 =>
              /\ Replied(r) /\ LastStatus(r) \in 200..299
              /\ HasEnvelopePath(gemini_response[r])
              /\ steps[r] = <<"subscript", "json.loads", "model_validate">>
              /\ ~IsUnset(json_string[r]) /\ ~IsUnset(parsed_response[r])
              /\ FitsDeclaredShape(parsed_response[r])
              /\ exc[r] = "None"
              /\ IsDict(reply[r].content) /\ DOMAIN reply[r].content.v = PackageKeys
              /\ FitsDeclaredShape(reply[r].content)
        /\ reply[r].status # 200 => reply[r].status >= 400 /\ NoPackage(reply[r])

C4_Witness ==
    /\ Done(1) /\ reply[1].status = 200 /\ Len(statuses[1]) = 2
    /\ FitsDeclaredShape(reply[1].content)

\* C5: a 2xx body without the envelope path fails the request in the
\* subscript step, with the KeyError, IndexError or TypeError of the missing
\* path: json.loads and model_validate are not run on it.
C5_MalformedEnvelopeBeforeParsing ==
    \A r \in Reqs :
        (Done(r) /\ ~IsUnset(gemini_response[r]) /\ ~HasEnvelopePath(gemini_response[r])) =>
            /\ exc[r] \in {"KeyError", "IndexError", "TypeError"}
            /\ steps[r] = <<"subscript">>
            /\ IsUnset(json_string[r]) /\ IsUnset(parsed_response[r])
            /\ reply[r].status # 200 /\ NoPackage(reply[r])

C5_Witness ==
    /\ Done(1) /\ Replied(1) /\ LastStatus(1) = 200
    /\ Has(gemini_response[1], "candidates")
    /\ IsList(gemini_response[1].v["candidates"])
    /\ Len(gemini_response[1].v["candidates"].v) = 0
    /\ exc[1] = "IndexError" /\ steps[1] = <<"subscript">>

\* C6: a 2xx reply is the last reply of its request, whatever its body: the
\* request is over with it, having made one POST per reply and one sleep per
\* earlier reply.
C6_NoCallAfterSuccessStatus ==
    \A r \in Reqs : \A j \in DOMAIN statuses[r] :
        statuses[r][j] \in 200..299 =>
            /\ j = Len(statuses[r])
            /\ Done(r)
            /\ posts[r] = j
            /\ Len(sleeps[r]) = j - 1

C6_Witness ==
    /\ Done(1) /\ Len(statuses[1]) = 2 /\ LastStatus(1) = 200
    /\ exc[1] = "ValidationError" /\ posts[1] = 2 /\ sleeps[1] = <<1>>

\* C7, as claimed: an unusable output (unparsable text, schema violation) is
\* answered 422, a provider error or a missing candidate 502, a missing
\* credential or any other failure 500.
C7_StatusPerFailureKind ==
    \A r \in Reqs : Done(r) =>
        /\ (exc[r] = "ValidationError"
            \/ (exc[r] = "JSONDecodeError" /\ steps[r] # <<>>)) => reply[r].status = 422
        /\ (exc[r] \in {"HTTPStatusError", "KeyError", "IndexError"}) => reply[r].status = 502
        /\ (posts[r] = 0 \/ exc[r] \in {"Exception", "TypeError"} \cup NetworkErrors)
              => reply[r].status = 500

\* C7, amended: every failure is answered 500.  A missing credential has the
\* configuration message; every failure of the try block, whatever its kind,
\* has one and the same message; 422 and 502 are never sent.
C7_EveryFailureIs500 ==
    \A r \in Reqs : Done(r) =>
        /\ reply[r].status \in {200, 500}
        /\ posts[r] = 0 => IsNotConfigured(reply[r])
        /\ exc[r] # "None" => IsGenericFailure(reply[r])
        /\ (posts[r] > 0 /\ exc[r] = "None") => reply[r].status = 200

C7_Witness ==
    /\ Done(1) /\ exc[1] = "ValidationError"
    /\ steps[1] = <<"subscript", "json.loads", "model_validate">>
    /\ reply[1].status = 500

\* The two failures of the provider call that C8 compares.
Exhausted(r)   == Done(r) /\ Len(statuses[r]) = 5 /\ AllRateLimited(r)
Unavailable(r) ==
    Done(r) /\ Replied(r) /\ LastStatus(r) \notin 200..299 /\ LastStatus(r) \notin {429, 0}

SameVideo(a, b) == a.v["title"] = b.v["title"] /\ a.v["url"] = b.v["url"]
SameQuizItem(a, b) ==
    /\ a.v["question"] = b.v["question"]
    /\ a.v["options"] = b.v["options"]
    /\ a.v["correctAnswer"] = b.v["correctAnswer"]
MirrorsParsed(content, parsed) ==
    /\ IsDict(content) /\ DOMAIN content.v = PackageKeys
    /\ content.v["explanation"] = parsed.v["explanation"]
    /\ content.v["examples"] = parsed.v["examples"]
    /\ Len(content.v["videos"].v) = Len(parsed.v["videos"].v)
    /\ \A j \in DOMAIN parsed.v["videos"].v :
          /\ DOMAIN content.v["videos"].v[j].v = {"title", "url"}
          /\ SameVideo(content.v["videos"].v[j], parsed.v["videos"].v[j])
    /\ Len(content.v["quiz"].v) = Len(parsed.v["quiz"].v)
    /\ \A j \in DOMAIN parsed.v["quiz"].v :
          /\ DOMAIN content.v["quiz"].v[j].v = {"question", "options", "correctAnswer"}
          /\ SameQuizItem(content.v["quiz"].v[j], parsed.v["quiz"].v[j])
\* The parsed value has the declared keys and no other.
OnlyDeclaredKeys(x) ==
    /\ DOMAIN x.v = PackageKeys
    /\ \A j \in DOMAIN x.v["videos"].v : DOMAIN x.v["videos"].v[j].v = {"title", "url"}
    /\ \A j \in DOMAIN x.v["quiz"].v :
          DOMAIN x.v["quiz"].v[j].v = {"question", "options", "correctAnswer"}

\* C9, as claimed: every parsed payload of the shape the specification
\* describes, examples being a text block or a list of texts, is answered
\* 200 with a package that has the parsed values.
C9_SpecShapeReturned ==
    \A r \in Reqs :
        (Done(r) /\ ~IsUnset(parsed_response[r]) /\ FitsSpecShape(parsed_response[r])) =>
            /\ reply[r].status = 200
            /\ MirrorsParsed(reply[r].content, parsed_response[r])

\* C9, amended: every parsed payload of the declared shape, examples being
\* one text block, is answered 200 with a package whose declared fields
\* have the parsed values (and that is the parsed value itself when it has
\* no other key); a payload with examples given as a list is refused with
\* the generic 500 and no package.
C9_DeclaredShapeReturned ==
    \A r \in Reqs :
        (Done(r) /\ ~IsUnset(parsed_response[r])) =>
            /\ FitsDeclaredShape(parsed_response[r]) =>
                  /\ reply[r].status = 200 /\ exc[r] = "None"
                  /\ MirrorsParsed(reply[r].content, parsed_response[r])
                  /\ OnlyDeclaredKeys(parsed_response[r])
                        => reply[r].content = parsed_response[r]
            /\ (FitsSpecShape(parsed_response[r])
                /\ IsList(parsed_response[r].v["examples"])) =>
                  /\ exc[r] = "ValidationError"
                  /\ IsGenericFailure(reply[r])

C9_Witness ==
    /\ Done(1) /\ ~IsUnset(parsed_response[1]) /\ FitsDeclaredShape(parsed_response[1])
    /\ Len(parsed_response[1].v["quiz"].v) = 1 /\ Len(parsed_response[1].v["videos"].v) = 1
    /\ OnlyDeclaredKeys(parsed_response[1])
    /\ reply[1].status = 200 /\ reply[1].content = parsed_response[1]

\* A required field is missing from the parsed object, from one of its
\* videos or from one of its quiz items.
MissingRequired(x) ==
    /\ IsDict(x)
    /\ \/ \E k \in PackageKeys : k \notin DOMAIN x.v
       \/ /\ Has(x, "videos") /\ IsList(x.v["videos"])
          /\ \E j \in DOMAIN x.v["videos"].v :
                LET item == x.v["videos"].v[j] IN
                IsDict(item) /\ ~({"title", "url"} \subseteq DOMAIN item.v)
       \/ /\ Has(x, "quiz") /\ IsList(x.v["quiz"])
          /\ \E j \in DOMAIN x.v["quiz"].v :
                LET item == x.v["quiz"].v[j] IN
                IsDict(item)
                /\ ~({"question", "options", "correctAnswer"} \subseteq DOMAIN item.v)

\* C10: a parsed payload with a required field missing fails the request in
\* model_validate, with its ValidationError, and no package is sent.
C10_MissingFieldRejected ==
    \A r \in Reqs :
        (Done(r) /\ ~IsUnset(parsed_response[r]) /\ MissingRequired(parsed_response[r])) =>
            /\ exc[r] = "ValidationError"
            /\ steps[r] = <<"subscript", "json.loads", "model_validate">>
            /\ reply[r].status # 200 /\ NoPackage(reply[r])

C10_Witness ==
    /\ Done(1) /\ ~IsUnset(parsed_response[1])
    /\ HasStr(parsed_response[1], "explanation") /\ HasStr(parsed_response[1], "examples")
    /\ Has(parsed_response[1], "videos") /\ Has(parsed_response[1], "quiz")
    /\ IsList(parsed_response[1].v["quiz"]) /\ Len(parsed_response[1].v["quiz"].v) = 2
    /\ IsQuizItem(parsed_response[1].v["quiz"].v[1])
    /\ ~Has(parsed_response[1].v["quiz"].v[2], "correctAnswer")
    /\ exc[1] = "ValidationError" /\ reply[1].status = 500

\* The texts of the replies that are no JSON value: empty, cut short,
\* followed by more, led by prose, without a colon, with a trailing comma.
NotJson(text) ==
    /\ text \in OtherTexts
    /\ text \notin {TArr(<<StringExamplesText>>), TNull, TStr("F=ma...")}

\* C11: a 2xx body with the envelope path present and a text that is no JSON
\* value fails the request in json.loads, with its JSONDecodeError: nothing
\* was parsed, model_validate is not run, and the caller gets the generic
\* failure.  A text that is no str at all fails in json.loads too, with
\* TypeError.
C11_InvalidJsonNotValidated ==
    \A r \in Reqs :
        (Done(r) /\ ~IsUnset(gemini_response[r]) /\ HasEnvelopePath(gemini_response[r])) =>
            /\ ~IsUnset(json_string[r])
            /\ (IsStr(json_string[r]) /\ NotJson(json_string[r].v)) =>
                  /\ exc[r] = "JSONDecodeError"
                  /\ steps[r] = <<"subscript", "json.loads">>
                  /\ IsUnset(parsed_response[r])
                  /\ IsGenericFailure(reply[r])
            /\ ~IsStr(json_string[r]) =>
                  /\ exc[r] = "TypeError"
                  /\ steps[r] = <<"subscript", "json.loads">>
                  /\ IsUnset(parsed_response[r])
                  /\ IsGenericFailure(reply[r])
            /\ "model_validate" \in {steps[r][j] : j \in DOMAIN steps[r]}
                  => ~IsUnset(parsed_response[r])

C11_Witness ==
    /\ Done(1) /\ Replied(1) /\ LastStatus(1) = 200
    /\ ~IsUnset(gemini_response[1]) /\ HasEnvelopePath(gemini_response[1])
    /\ IsStr(json_string[1])
    /\ json_string[1].v = SubSeq(StringExamplesText, 1, Len(StringExamplesText) - 1)
    /\ exc[1] = "JSONDecodeError" /\ steps[1] = <<"subscript", "json.loads">>
    /\ reply[1].status = 500

\* The stage at which a request that sent no package failed.
FailedStage(r) ==
    CASE posts[r] = 0                    -> "credential"
      [] posts[r] > 0 /\ steps[r] = <<>> -> "provider call"
      [] steps[r] = <<"subscript">>      -> "envelope"
      [] steps[r] = <<"subscript", "json.loads">> -> "parsing"
      [] OTHER                           -> "validation"

\* The constant answer of each stage.
StageReply(stage) ==
    IF stage = "credential"
    THEN [status |-> 500, detail |-> "Gemini API key not configured.",
          content |-> [t |-> "unset", v |-> "unset"]]
    ELSE [status |-> 500, detail |-> "Failed to generate content from AI.",
          content |-> [t |-> "unset", v |-> "unset"]]

\* C12: what a failed request sends is a function of the stage it failed at
\* and of nothing else: whatever the reply's status, body, text or exception
\* was, the caller gets the constant status and message of that stage, and
\* the answer has no other part that could carry the provider's content.
\* Two runs that fail at the same stage are therefore answered identically.
C12_ErrorReplyIgnoresContent ==
    \A r \in Reqs :
        (Done(r) /\ reply[r].status # 200) =>
            /\ DOMAIN reply[r] = {"status", "detail", "content"}
            /\ reply[r] = StageReply(FailedStage(r))
            /\ reply[r].detail \in {"Gemini API key not configured.",
                                    "Failed to generate content from AI."}

C12_Witness ==
    /\ Done(1) /\ Replied(1) /\ LastStatus(1) = 403
    /\ IsDict(response[1].body) /\ Has(response[1].body, "error")
    /\ exc[1] = "HTTPStatusError"
    /\ reply[1] = StageReply("provider call")

\* Everything request r holds: its locals and what it was sent and sends.
Local(r) ==
    <<pc[r], query[r], payload[r], i[r], posts[r], sleeps[r], statuses[r], response[r],
      steps[r], gemini_response[r], json_string[r], parsed_response[r], exc[r], reply[r]>>

\* The number of 429 replies request r has had.
RateLimitedCount(r) == Cardinality({j \in DOMAIN statuses[r] : statuses[r][j] = 429})

\* The attempts, delays and outcome of request r are those of a request that
\* runs alone and gets the replies r got: one POST per reply (and the one in
\* flight), the delays 1, 2, 4, ... one per 429, a counter that counts r's
\* own sleeps that are over, the payload of r's own query, and an outcome
\* that r's own last reply decides.
RunsAsAlone(r) ==
    /\ pc[r] = "idle" => posts[r] = 0 /\ statuses[r] = <<>> /\ IsUnset(payload[r])
    /\ posts[r] > 0 =>
          /\ payload[r] = Payload(query[r])
          /\ posts[r] = Len(statuses[r]) + (IF pc[r] = "post" THEN 1 ELSE 0)
          /\ \A j \in 1..(Len(statuses[r]) - 1) : statuses[r][j] = 429
          /\ sleeps[r] = [j \in 1..RateLimitedCount(r) |-> 2 ^ (j - 1)]
          /\ i[r] = RateLimitedCount(r) - (IF pc[r] = "sleep" THEN 1 ELSE 0)
          /\ Done(r) =>
                IF RateLimitedCount(r) = Len(statuses[r])
                THEN Len(statuses[r]) = 5 /\ exc[r] = "Exception"
                     /\ IsGenericFailure(reply[r])
                ELSE IF Attempt(response[r]).do = "return"
                     THEN /\ exc[r] = AfterCall(response[r].body).exc
                          /\ reply[r].status = AfterCall(response[r].body).reply.status
                          /\ reply[r].status = 200 =>
                                reply[r].content = AfterCall(response[r].body).reply.content
                     ELSE /\ exc[r] = Attempt(response[r]).exc
                          /\ IsGenericFailure(reply[r])

\* A step is the step of one request and leaves what the others hold as it
\* was.
StepOfOneRequest == \E r \in Reqs : \A s \in Reqs \ {r} : Local(s)' = Local(s)

\* C13: with the requests interleaved at every await, each request has the
\* attempts, the delays and the outcome it would have alone with the replies
\* it got, and no step of a request changes the counter, the payload, the
\* replies or the result of another.
C13_RequestsOwnTheirState ==
    /\ [](\A r \in Reqs : RunsAsAlone(r))
    /\ [][StepOfOneRequest]_vars

C13_Witness ==
    /\ Done(1) /\ statuses[1] = <<429, 429, 200>> /\ sleeps[1] = <<1, 2>>
    /\ posts[1] = 3 /\ reply[1].status = 200
    /\ Exhausted(2) /\ sleeps[2] = <<1, 2, 4, 8, 16>> /\ posts[2] = 5
    /\ IsGenericFailure(reply[2])
    /\ query[1] # query[2] /\ payload[1] # payload[2]

Suspended(r) == pc[r] \in {"post", "sleep"}

\* C14: a request that is not over can take its next step whatever the
\* other requests are suspended in, and, with request 1 left suspended in a
\* sleep or a POST for as long as one likes, for ever included, every other
\* request starts, makes its calls and completes.
C14_SuspendedBlocksNoOther ==
    /\ [](\A r, s \in Reqs : (r # s /\ Suspended(r) /\ ~Done(s)) => ENABLED Step(s))
    /\ \A s \in Reqs \ {1} : <>Done(s)

C14_Witness ==
    /\ pc[1] = "sleep" /\ sleeps[1] = <<1>> /\ i[1] = 0
    /\ Done(2) /\ posts[2] = 1 /\ reply[2].status = 200

\* The request has sent a package and raised nothing, or has sent an error
\* and no package: one of the two, never both.
OneOutcome(r) ==
    (reply[r].status = 200 /\ ~NoPackage(reply[r]) /\ exc[r] = "None")
        # (reply[r].status = 500 /\ NoPackage(reply[r]))

\* C15: whatever replies come, a request makes at most 5 POSTs and sleeps at
\* most 5 times; a request that has started is over in the end, if each POST
\* and each sleep returns; it is over with one outcome, a package or a
\* failure, and once over it does nothing more.
C15_BoundedAndTerminates ==
    /\ [](\A r \in Reqs : posts[r] <= 5 /\ Len(sleeps[r]) <= 5 /\ Len(statuses[r]) <= 5)
    /\ [](\A r \in Reqs : Done(r) => OneOutcome(r))
    /\ [][\A r \in Reqs : Done(r) => Local(r)' = Local(r)]_vars
    /\ (pc[1] # "idle") ~> Done(1)

C15_Witness ==
    /\ Done(1) /\ posts[1] = 5 /\ Len(sleeps[1]) = 4
    /\ statuses[1] = <<429, 429, 429, 429, 500>>
    /\ exc[1] = "HTTPStatusError" /\ reply[1].status = 500

\* The POSTs and the sleeps of a request alternate: a sleep begins when a
\* POST has returned, with one more reply than sleeps before it; a POST
\* after the first begins when a sleep has returned, with as many sleeps as
\* POSTs before it.
PostsAndSleepsAlternate ==
    \A r \in Reqs :
        /\ sleeps'[r] # sleeps[r] =>
              /\ pc[r] = "post" /\ pc'[r] = "sleep"
              /\ Len(sleeps'[r]) = Len(sleeps[r]) + 1
              /\ Len(sleeps'[r]) = posts[r] /\ posts'[r] = posts[r]
        /\ posts'[r] # posts[r] =>
              /\ posts'[r] = posts[r] + 1 /\ sleeps'[r] = sleeps[r]
              /\ IF posts[r] = 0 THEN pc[r] = "idle"
                 ELSE pc[r] = "sleep" /\ Len(sleeps[r]) = posts[r]

\* C16: a request whose first k replies are 429 (k = 0..4) and whose next
\* reply has a 2xx status is over with that reply, after k + 1 POSTs and the
\* k sleeps 1, 2, ..., 2^(k-1) in that order; call_with_retries has returned
\* the body of that reply if it decodes; POSTs and sleeps have alternated,
\* and nothing follows the reply.
C16_SuccessAfterKRateLimits ==
    /\ [](\A r \in Reqs : \A k \in 0..4 :
            (/\ Len(statuses[r]) > k
             /\ \A j \in 1..k : statuses[r][j] = 429
             /\ statuses[r][k + 1] \in 200..299) =>
                /\ Len(statuses[r]) = k + 1
                /\ posts[r] = k + 1
                /\ sleeps[r] = [j \in 1..k |-> 2 ^ (j - 1)]
                /\ Done(r)
                /\ response[r].body.t # "bytes" =>
                      /\ ~IsUnset(gemini_response[r])
                      /\ gemini_response[r] = response[r].body)
    /\ [][PostsAndSleepsAlternate]_vars
    /\ [][\A r \in Reqs : Done(r) => (posts'[r] = posts[r] /\ sleeps'[r] = sleeps[r])]_vars

C16_Witness ==
    /\ Done(1) /\ statuses[1] = <<429, 429, 429, 429, 200>>
    /\ posts[1] = 5 /\ sleeps[1] = <<1, 2, 4, 8>>
    /\ HasEnvelopePath(gemini_response[1]) /\ reply[1].status = 200

\* The last reply of request r is no response at all (a timeout, a failed
\* connection), or has a 2xx status and a body that is not JSON.
NoStatusOrBadBody(r) ==
    /\ Replied(r)
    /\ \/ response[r].error \in NetworkErrors
       \/ LastStatus(r) \in 200..299 /\ response[r].body.t = "bytes"

\* C17: a POST that fails without a status, or a 2xx reply whose body
\* response.json() cannot decode, ends the request on that attempt, at
\* whatever attempt it comes: the error is the one raised, no sleep and no
\* POST follows, call_with_retries returns nothing, no step of the handler
\* runs on a body, and the caller gets the generic failure.
C17_NoStatusOrBadBodyNotRetried ==
    \A r \in Reqs :
        NoStatusOrBadBody(r) =>
            /\ Done(r)
            /\ posts[r] = Len(statuses[r])
            /\ Len(sleeps[r]) = Len(statuses[r]) - 1
            /\ \A j \in 1..(Len(statuses[r]) - 1) : statuses[r][j] = 429
            /\ exc[r] = (IF response[r].error \in NetworkErrors
                         THEN response[r].error ELSE "JSONDecodeError")
            /\ IsUnset(gemini_response[r]) /\ steps[r] = <<>>
            /\ IsGenericFailure(reply[r])

C17_Witness ==
    /\ Done(1) /\ statuses[1] = <<429, 0>> /\ response[1].error = "ReadTimeout"
    /\ posts[1] = 2 /\ sleeps[1] = <<1>> /\ exc[1] = "ReadTimeout"
    /\ reply[1].status = 500

====
